---- MODULE Spec2Model ----
(***************************************************************************)
(* Threshold multisignature public keys                                    *)
(* (cosmwasm/enclaves/shared/cosmos-types/src/multisig.rs):                *)
(*   - decode_multisig_signature      the protobuf based blob decoder      *)
(*   - decode_multisig_signature_old  the legacy hand written decoder      *)
(*   - MultisigThresholdPubKey::verify_bytes   the threshold verifier      *)
(*   - MultisigThresholdPubKey::amino_bytes    the canonical encoder       *)
(* Bytes are naturals in 0..255, byte strings are sequences of bytes, and  *)
(* offsets into a byte string are 0-based as in the source.                *)
(***************************************************************************)
EXTENDS Naturals, Sequences, FiniteSets

VARIABLES
    op,               \* which entry point runs: "verify", "decode", "old", "amino"
    kind,             \* how the input blob was built: "encoded", "truncated", "raw"
    pc,               \* position inside the running function
    threshold,        \* self.threshold
    public_keys,      \* self.public_keys (a sequence of key identities)
    accepted,         \* the signers' own verify_bytes, as a relation key x signature
    raw_blob,         \* the sig / raw_blob argument
    src_sigs,         \* the signature list the blob was serialized from (history)
    pos,              \* the parser's read offset into raw_blob
    parse_ok,         \* whether MultiSignature::parse_from_bytes has failed
    ms_signatures,    \* ms.signatures, filled while parsing
    decode_result,    \* what decode_multisig_signature returned
    signatures,       \* verify_bytes' local `signatures` / the decoder's Ok value
    signers,          \* verify_bytes' local `signers` (slots of public_keys)
    sig_idx,          \* index of current_sig in signatures
    verified_counter, \* verify_bytes' local `verified_counter`
    calls,            \* number of calls of a signer's verify_bytes (history)
    matched,          \* pairs <<signature index, signer slot>> attributed (history)
    result,           \* the value the entry point returned
    encoded           \* amino_bytes' local `encoded`

vars == <<op, kind, pc, threshold, public_keys, accepted, raw_blob, src_sigs, pos,
          parse_ok, ms_signatures, decode_result, signatures, signers, sig_idx,
          verified_counter, calls, matched, result, encoded>>

(***************************************************************************)
(* Bounds of the model                                                     *)
(***************************************************************************)
MaxKeys == 2
MaxThreshold == 3
MaxSigs == 3
MaxBlobLen == 3
MaxAminoKeys == 3
LongKeyLen == 130

(***************************************************************************)
(* Program constants                                                       *)
(***************************************************************************)
MULTISIG_THRESHOLD_PREFIX == <<34, 193, 247, 226>>
THRESHOLD_PREFIX == 8
PUBKEY_PREFIX == 18
\* tag of field 1, length delimited: the first byte of every test vector record
SIGNATURE_TAG == 10
\* the legacy decoder rejects blobs shorter than this and starts reading at OLD_START
OLD_MIN_SIZE == 8
OLD_START == 7
\* the legacy decoder's record prefix
OLD_SIG_PREFIX == 18
\* a varint is at most this many bytes
MaxVarintBytes == 10
\* length of the payload of test_decode_long_leb128
LongSigLen == 200

(***************************************************************************)
(* Helpers                                                                 *)
(***************************************************************************)
SeqsUpTo(S, n) == UNION {[1..m -> S] : m \in 0..n}

Range(s) == {s[i] : i \in 1..Len(s)}

Repeat(b, n) == [i \in 1..n |-> b]

RECURSIVE Concat(_)
Concat(ss) == IF ss = <<>> THEN <<>> ELSE Head(ss) \o Concat(Tail(ss))

(***************************************************************************)
(* Varints (prost::encoding::encode_varint, prost::encode_length_delimiter, *)
(* prost::decode_length_delimiter, protobuf's read_raw_varint)             *)
(***************************************************************************)
RECURSIVE EncodeVarint(_)
EncodeVarint(n) ==
    IF n < 128 THEN <<n>> ELSE <<(n % 128) + 128>> \o EncodeVarint(n \div 128)

\* prost::length_delimiter_len: the number of bytes of the minimal encoding
length_delimiter_len(n) == Len(EncodeVarint(n))

\* Reads a varint of buf starting at offset off, having consumed n bytes of it.
RECURSIVE VarintFrom(_, _, _)
VarintFrom(buf, off, n) ==
    IF n >= MaxVarintBytes \/ off >= Len(buf)
    THEN [ok |-> FALSE, value |-> 0, next |-> off]
    ELSE IF buf[off + 1] < 128
         THEN [ok |-> TRUE, value |-> buf[off + 1], next |-> off + 1]
         ELSE LET r == VarintFrom(buf, off + 1, n + 1)
              IN  [ok |-> r.ok, value |-> (buf[off + 1] - 128) + 128 * r.value,
                   next |-> r.next]

DecodeVarint(buf, off) == VarintFrom(buf, off, 0)

(***************************************************************************)
(* MultiSignature::parse_from_bytes: the protobuf message               *)
(*     message MultiSignature { repeated bytes signatures = 1; }           *)
(* read field by field until the buffer is exhausted.                      *)
(***************************************************************************)
\* The tag of the next field: a varint, field number in the high bits (never 0)
\* and wire type in the low three bits (0..5).
ReadTag(buf, off) ==
    LET v == DecodeVarint(buf, off)
    IN  [ok    |-> v.ok /\ (v.value \div 8) # 0 /\ (v.value % 8) \in 0..5,
         field |-> v.value \div 8,
         wire  |-> v.value % 8,
         next  |-> v.next]

\* A length delimited payload: a varint length, then exactly that many bytes,
\* which must all lie inside the buffer.
ReadBytes(buf, off) ==
    LET l == DecodeVarint(buf, off)
    IN  IF l.ok /\ l.next + l.value <= Len(buf)
        THEN [ok |-> TRUE, bytes |-> SubSeq(buf, l.next + 1, l.next + l.value),
              next |-> l.next + l.value]
        ELSE [ok |-> FALSE, bytes |-> <<>>, next |-> off]

\* A fixed width value of n bytes.
ReadFixed(buf, off, n) ==
    IF off + n <= Len(buf)
    THEN [ok |-> TRUE, next |-> off + n]
    ELSE [ok |-> FALSE, next |-> off]

\* A field that is not `signatures` is skipped according to its wire type;
\* group wire types (3, 4) do not occur in the blobs drawn here and are refused.
SkipUnknown(buf, off, wire) ==
    IF wire = 0 THEN LET v == DecodeVarint(buf, off) IN [ok |-> v.ok, next |-> v.next]
    ELSE IF wire = 1 THEN ReadFixed(buf, off, 8)
    ELSE IF wire = 5 THEN ReadFixed(buf, off, 4)
    ELSE IF wire = 2 THEN LET b == ReadBytes(buf, off) IN [ok |-> b.ok, next |-> b.next]
    ELSE [ok |-> FALSE, next |-> off]

\* One iteration of the merge loop at offset off: the field is a signature
\* (field 1, length delimited), an unknown field that is skipped, or an error.
ParseFieldAt(buf, off) ==
    LET t == ReadTag(buf, off)
    IN  IF ~t.ok THEN [ok |-> FALSE, is_sig |-> FALSE, bytes |-> <<>>, next |-> off]
        ELSE IF t.field = 1
        THEN IF t.wire = 2
             THEN LET b == ReadBytes(buf, t.next)
                  IN  [ok |-> b.ok, is_sig |-> b.ok, bytes |-> b.bytes,
                       next |-> IF b.ok THEN b.next ELSE off]
             ELSE [ok |-> FALSE, is_sig |-> FALSE, bytes |-> <<>>, next |-> off]
        ELSE LET u == SkipUnknown(buf, t.next, t.wire)
             IN  [ok |-> u.ok, is_sig |-> FALSE, bytes |-> <<>>,
                  next |-> IF u.ok THEN u.next ELSE off]

(***************************************************************************)
(* decode_multisig_signature (lines 161-171)                               *)
(***************************************************************************)
\* What the function returns once parse_from_bytes has ended: a parse error
\* is mapped to ParsingError and carries no list, otherwise the parsed
\* signatures are returned as they are.
\* faulty variants: an empty list is refused as the legacy decoder does; a parse
\* error is swallowed; empty signatures are dropped
DecodeOutcomeMutantStrict(parsed, sigs) ==
    IF parsed /\ sigs # <<>>
    THEN [result |-> "Ok", signatures |-> sigs]
    ELSE [result |-> "ParsingError", signatures |-> <<>>]
DecodeOutcomeMutantLenient(parsed, sigs) ==
    [result |-> "Ok", signatures |-> sigs]
DecodeOutcomeMutantDropEmpty(parsed, sigs) ==
    IF parsed
    THEN [result |-> "Ok", signatures |-> SelectSeq(sigs, LAMBDA x : x # <<>>)]
    ELSE [result |-> "ParsingError", signatures |-> <<>>]
DecodeOutcome(parsed, sigs) ==
    IF parsed
    THEN [result |-> "Ok", signatures |-> sigs]
    ELSE [result |-> "ParsingError", signatures |-> <<>>]

\* the merge loop reads one field
ParseField ==
    /\ op \in {"verify", "decode"}
    /\ pc = "parse"
    /\ pos < Len(raw_blob)
    /\ LET f == ParseFieldAt(raw_blob, pos)
       IN  /\ pos' = f.next
           /\ parse_ok' = f.ok
           /\ ms_signatures' = IF f.is_sig THEN Append(ms_signatures, f.bytes)
                                           ELSE ms_signatures
           /\ pc' = IF f.ok THEN "parse" ELSE "return"
    /\ UNCHANGED <<op, kind, threshold, public_keys, accepted, raw_blob, src_sigs,
                   decode_result, signatures, signers, sig_idx, verified_counter,
                   calls, matched, result, encoded>>

\* the merge loop ends at the end of the buffer
ParseEof ==
    /\ op \in {"verify", "decode"}
    /\ pc = "parse"
    /\ pos = Len(raw_blob)
    /\ pc' = "return"
    /\ UNCHANGED <<op, kind, threshold, public_keys, accepted, raw_blob, src_sigs,
                   pos, parse_ok, ms_signatures, decode_result, signatures, signers,
                   sig_idx, verified_counter, calls, matched, result, encoded>>

\* decode_multisig_signature returns; in verify_bytes the `?` of line 105
\* returns its error at once.
DecodeReturn ==
    /\ op \in {"verify", "decode"}
    /\ pc = "return"
    /\ LET out == DecodeOutcome(parse_ok, ms_signatures)
       IN  /\ decode_result' = out.result
           /\ signatures' = out.signatures
           /\ IF op = "verify" /\ out.result = "Ok"
              THEN pc' = "count" /\ result' = result
              ELSE pc' = "done" /\ result' = out.result
    /\ UNCHANGED <<op, kind, threshold, public_keys, accepted, raw_blob, src_sigs,
                   pos, parse_ok, ms_signatures, signers, sig_idx, verified_counter,
                   calls, matched, encoded>>

(***************************************************************************)
(* MultisigThresholdPubKey::verify_bytes (lines 97-158)                    *)
(***************************************************************************)
\* current_signer.verify_bytes(bytes, current_sig, sign_mode).is_ok(), line 130:
\* the signer's own capability, any pure relation between keys and signatures
\* (message and sign mode are fixed for one call).
Accepts(slot, sig) == <<public_keys[slot], sig>> \in accepted

\* current_sig.is_empty(), line 121
\* faulty variant: the emptiness test is lost
IsEmptyMutant(sig) == FALSE
IsEmpty(sig) == Len(sig) = 0

\* signers.remove(i), line 141
\* faulty variant: the matched signer stays in the pool
RemoveSignerMutant(pool, i) == pool
RemoveSigner(pool, i) == SubSeq(pool, 1, i - 1) \o SubSeq(pool, i + 1, Len(pool))

\* the final comparison, line 151: success iff not (verified_counter < threshold)
\* faulty variants: the comparison is off by one, either way
ThresholdMetMutant(counter, t) == counter > t
ThresholdMetMutantLoose(counter, t) == counter + 1 >= t
ThresholdMet(counter, t) == ~(counter < t)

\* the inner loop, lines 127-137: the position in the pool of the first signer
\* that accepts sig, or 0 when none does
FirstAccepting(pool, sig) ==
    LET hits == {i \in 1..Len(pool) : Accepts(pool[i], sig)}
    IN  IF hits = {} THEN 0 ELSE CHOOSE i \in hits : \A j \in hits : i <= j

\* lines 107-118: too few decoded entries fail at once, otherwise the counter
\* and the candidate pool are initialised
CheckCount ==
    /\ op = "verify"
    /\ pc = "count"
    /\ IF Len(signatures) < threshold
       THEN /\ result' = "VerificationError"
            /\ pc' = "done"
            /\ UNCHANGED <<signers, sig_idx, verified_counter>>
       ELSE /\ verified_counter' = 0
            /\ signers' = [i \in 1..Len(public_keys) |-> i]
            /\ sig_idx' = 1
            /\ pc' = "loop"
            /\ UNCHANGED result
    /\ UNCHANGED <<op, kind, threshold, public_keys, accepted, raw_blob, src_sigs,
                   pos, parse_ok, ms_signatures, decode_result, signatures, calls,
                   matched, encoded>>

\* lines 121-124: an empty signature is skipped
SkipEmpty ==
    /\ op = "verify"
    /\ pc = "loop"
    /\ sig_idx <= Len(signatures)
    /\ IsEmpty(signatures[sig_idx])
    /\ sig_idx' = sig_idx + 1
    /\ UNCHANGED <<op, kind, pc, threshold, public_keys, accepted, raw_blob,
                   src_sigs, pos, parse_ok, ms_signatures, decode_result, signatures,
                   signers, verified_counter, calls, matched, result, encoded>>

\* lines 126-141: the first signer of the pool that accepts the signature is
\* counted and removed from the pool
Attribute ==
    /\ op = "verify"
    /\ pc = "loop"
    /\ sig_idx <= Len(signatures)
    /\ ~IsEmpty(signatures[sig_idx])
    /\ LET i == FirstAccepting(signers, signatures[sig_idx])
       IN  /\ i # 0
           /\ verified_counter' = verified_counter + 1
           /\ calls' = calls + i
           /\ matched' = matched \cup {<<sig_idx, signers[i]>>}
           /\ signers' = RemoveSigner(signers, i)
    /\ sig_idx' = sig_idx + 1
    /\ UNCHANGED <<op, kind, pc, threshold, public_keys, accepted, raw_blob,
                   src_sigs, pos, parse_ok, ms_signatures, decode_result, signatures,
                   result, encoded>>

\* faulty variant: the unattributable signature is ignored and the loop goes on
UnattributableMutant ==
    /\ op = "verify"
    /\ pc = "loop"
    /\ sig_idx <= Len(signatures)
    /\ ~IsEmpty(signatures[sig_idx])
    /\ FirstAccepting(signers, signatures[sig_idx]) = 0
    /\ calls' = calls + Len(signers)
    /\ sig_idx' = sig_idx + 1
    /\ UNCHANGED <<op, kind, pc, threshold, public_keys, accepted, raw_blob,
                   src_sigs, pos, parse_ok, ms_signatures, decode_result, signatures,
                   signers, verified_counter, matched, result, encoded>>

\* lines 142-148: no signer of the pool accepts the signature
Unattributable ==
    /\ op = "verify"
    /\ pc = "loop"
    /\ sig_idx <= Len(signatures)
    /\ ~IsEmpty(signatures[sig_idx])
    /\ FirstAccepting(signers, signatures[sig_idx]) = 0
    /\ calls' = calls + Len(signers)
    /\ result' = "VerificationError"
    /\ pc' = "done"
    /\ UNCHANGED <<op, kind, threshold, public_keys, accepted, raw_blob, src_sigs,
                   pos, parse_ok, ms_signatures, decode_result, signatures, signers,
                   sig_idx, verified_counter, matched, encoded>>

\* lines 151-157: all signatures were processed
Finish ==
    /\ op = "verify"
    /\ pc = "loop"
    /\ sig_idx > Len(signatures)
    /\ result' = IF ThresholdMet(verified_counter, threshold)
                 THEN "Ok" ELSE "VerificationError"
    /\ pc' = "done"
    /\ UNCHANGED <<op, kind, threshold, public_keys, accepted, raw_blob, src_sigs,
                   pos, parse_ok, ms_signatures, decode_result, signatures, signers,
                   sig_idx, verified_counter, calls, matched, encoded>>

(***************************************************************************)
(* decode_multisig_signature_old (lines 175-231)                           *)
(***************************************************************************)
\* the while loop of lines 186-223 from read offset idx, with the signatures
\* pushed so far
RECURSIVE OldLoop(_, _, _)
OldLoop(blob, idx, sigs) ==
    IF idx > Len(blob) \/ idx = Len(blob)
    THEN \* raw_blob.get(idx..) is None, or the window is empty: the loop ends
         [ok |-> TRUE, signatures |-> sigs]
    ELSE IF blob[idx + 1] # OLD_SIG_PREFIX
    THEN [ok |-> FALSE, signatures |-> <<>>]
    ELSE LET d == DecodeVarint(blob, idx + 1)    \* decode_length_delimiter
         IN  IF ~d.ok
             THEN [ok |-> FALSE, signatures |-> <<>>]
             ELSE LET len_size == length_delimiter_len(d.value)
                      from     == idx + 1 + len_size
                      to       == idx + 1 + d.value + len_size
                  IN  IF to <= Len(blob)    \* sig_including_len.get(a..b) is Some
                      THEN OldLoop(blob, idx + 1 + len_size + d.value,
                                   Append(sigs, SubSeq(blob, from + 1, to)))
                      ELSE [ok |-> FALSE, signatures |-> <<>>]

decode_multisig_signature_old(blob) ==
    IF Len(blob) < OLD_MIN_SIZE
    THEN [result |-> "ParsingError", signatures |-> <<>>]
    ELSE LET r == OldLoop(blob, OLD_START, <<>>)
         IN  IF ~r.ok \/ r.signatures = <<>>
             THEN [result |-> "ParsingError", signatures |-> <<>>]
             ELSE [result |-> "Ok", signatures |-> r.signatures]

DecodeOld ==
    /\ op = "old"
    /\ pc = "start"
    /\ LET out == decode_multisig_signature_old(raw_blob)
       IN  /\ result' = out.result
           /\ signatures' = out.signatures
    /\ pc' = "done"
    /\ UNCHANGED <<op, kind, threshold, public_keys, accepted, raw_blob, src_sigs,
                   pos, parse_ok, ms_signatures, decode_result, signers, sig_idx,
                   verified_counter, calls, matched, encoded>>

(***************************************************************************)
(* MultisigThresholdPubKey::amino_bytes (lines 57-93)                      *)
(***************************************************************************)
\* pubkey.amino_bytes(), line 72: the canonical bytes of a constituent key.
\* Key 1 is short and holds the bytes of a record prefix; every other key is
\* long enough for its length to need two varint bytes.
KeyBytes(k) == IF k = 1 THEN <<PUBKEY_PREFIX, 1, 7>> ELSE Repeat(k, LongKeyLen)

\* lines 70-88: one iteration of the loop over public_keys
\* faulty variant: the length is written as a single byte
PubkeyRecordMutant(pubkey) ==
    <<PUBKEY_PREFIX>> \o <<Len(KeyBytes(pubkey)) % 256>> \o KeyBytes(pubkey)
PubkeyRecord(pubkey) ==
    <<PUBKEY_PREFIX>> \o EncodeVarint(Len(KeyBytes(pubkey))) \o KeyBytes(pubkey)

amino_bytes(t, keys) ==
    MULTISIG_THRESHOLD_PREFIX \o <<THRESHOLD_PREFIX>> \o EncodeVarint(t)
        \o Concat([i \in 1..Len(keys) |-> PubkeyRecord(keys[i])])

AminoBytes ==
    /\ op = "amino"
    /\ pc = "start"
    /\ encoded' = amino_bytes(threshold, public_keys)
    /\ result' = "Ok"
    /\ pc' = "done"
    /\ UNCHANGED <<op, kind, threshold, public_keys, accepted, raw_blob, src_sigs,
                   pos, parse_ok, ms_signatures, decode_result, signatures, signers,
                   sig_idx, verified_counter, calls, matched>>

(***************************************************************************)
(* Inputs                                                                  *)
(***************************************************************************)
Keys == {1, 2}

\* the serialization of a signature list the tests' comments describe
\* (ms.set_signatures(sigs); ms.write_to_bytes()): one record per signature
SigRecord(sig) == <<SIGNATURE_TAG>> \o EncodeVarint(Len(sig)) \o sig

EncodeSigs(sigs) == Concat([i \in 1..Len(sigs) |-> SigRecord(sigs[i])])

\* a record cut short: the tag alone, or a tag and a declared length n followed
\* by only m < n payload bytes
TruncatedRecords ==
    {<<SIGNATURE_TAG>>}
        \cup {<<SIGNATURE_TAG>> \o EncodeVarint(c[1]) \o Repeat(1, c[2]) :
                  c \in {d \in {1, 2, 3, LongSigLen} \X (0..2) : d[2] < d[1]}}

\* signatures the verifier is run on: the empty one and two non-empty ones
NonEmptySigs == {<<1>>, <<2>>}
VerifySigs == {<<>>} \cup NonEmptySigs

\* signatures the decoder is run on: empty, short, holding the bytes of a
\* record, and long enough for a two byte length
DecodeSigs == {<<>>, <<1>>, <<SIGNATURE_TAG, 0>>, Repeat(0, LongSigLen)}

RawBytes == {0, 1, 2, SIGNATURE_TAG, 128}
OldBytes == {0, 1, 2, OLD_SIG_PREFIX, 128}

Idle ==
    /\ pos = 0 /\ parse_ok = TRUE /\ ms_signatures = <<>> /\ decode_result = "None"
    /\ signatures = <<>> /\ signers = <<>> /\ sig_idx = 0 /\ verified_counter = 0
    /\ calls = 0 /\ matched = {} /\ result = "None" /\ encoded = <<>>

NoKey == threshold = 0 /\ public_keys = <<>> /\ accepted = {}

\* the blob is the serialization of src_sigs, or of src_sigs followed by a
\* record cut short
BlobFrom(sigset, n, prefixlen) ==
    \/ /\ kind = "encoded"
       /\ src_sigs \in SeqsUpTo(sigset, n)
       /\ raw_blob = EncodeSigs(src_sigs)
    \/ /\ kind = "truncated"
       /\ src_sigs \in SeqsUpTo(sigset, prefixlen)
       /\ \E bad \in TruncatedRecords : raw_blob = EncodeSigs(src_sigs) \o bad

InitVerify ==
    /\ op = "verify" /\ pc = "parse"
    /\ threshold \in 0..MaxThreshold
    /\ public_keys \in SeqsUpTo(Keys, MaxKeys)
    /\ accepted \in SUBSET (Keys \X NonEmptySigs)
    /\ BlobFrom(VerifySigs, MaxSigs, 0)
    /\ Idle

InitDecode ==
    /\ NoKey /\ Idle
    /\ \/ /\ op = "decode" /\ pc = "parse"
          /\ \/ BlobFrom(DecodeSigs, MaxSigs, 1)
             \/ /\ kind = "raw"
                /\ src_sigs = <<>>
                /\ raw_blob \in SeqsUpTo(RawBytes, MaxBlobLen)
       \/ /\ op = "old" /\ pc = "start"
          /\ kind = "raw"
          /\ src_sigs = <<>>
          /\ \/ raw_blob \in {Repeat(0, n) : n \in 0..OLD_START}
             \/ \E tail \in SeqsUpTo(OldBytes, MaxBlobLen) :
                    raw_blob = Repeat(0, OLD_START) \o tail

AminoThresholds == {0, 1, 127, 128, 300, 16384}

InitAmino ==
    /\ op = "amino" /\ pc = "start"
    /\ kind = "raw" /\ raw_blob = <<>> /\ src_sigs = <<>>
    /\ threshold \in AminoThresholds
    /\ public_keys \in SeqsUpTo(Keys, MaxAminoKeys)
    /\ accepted = {}
    /\ Idle

NextVerify ==
    \/ ParseField \/ ParseEof \/ DecodeReturn
    \/ CheckCount \/ SkipEmpty \/ Attribute \/ Unattributable \/ Finish

NextDecode == ParseField \/ ParseEof \/ DecodeReturn \/ DecodeOld

NextAmino == AminoBytes

SpecVerify == InitVerify /\ [][NextVerify]_vars
SpecDecode == InitDecode /\ [][NextDecode]_vars
SpecAmino == InitAmino /\ [][NextAmino]_vars

(***************************************************************************)
(* Properties of verify_bytes                                              *)
(***************************************************************************)
VerifyDone == op = "verify" /\ pc = "done"

Slots == 1..Len(public_keys)

NonEmptyIdx == {i \in 1..Len(signatures) : signatures[i] # <<>>}

\* a pairing gives every decoded entry a signer slot, or 0 for none
Pairings == [1..Len(signatures) -> 0..Len(public_keys)]

\* only non-empty entries are paired, each with a slot whose verify_bytes
\* accepts it, and no slot is paired with two entries
ValidPairing(f) ==
    \A i \in 1..Len(signatures) :
        f[i] # 0 => /\ signatures[i] # <<>>
                    /\ Accepts(f[i], signatures[i])
                    /\ \A j \in 1..Len(signatures) : j # i => f[j] # f[i]

PairedCount(f) == Cardinality({i \in 1..Len(signatures) : f[i] # 0})

\* C1: if verification succeeds, at least `threshold` distinct signer slots are
\* each paired with a different non-empty decoded entry that the slot's own
\* verify_bytes accepts.
C1_Soundness ==
    (VerifyDone /\ result = "Ok")
        => \E f \in Pairings : ValidPairing(f) /\ PairedCount(f) >= threshold

C1_Witness ==
    /\ VerifyDone /\ result = "Ok"
    /\ threshold = 2 /\ Len(signatures) = 3 /\ verified_counter = 2

\* C2: a signer matched to a signature is out of the candidate pool for the rest
\* of the call, and a blob holding the same non-empty signature twice, accepted
\* by exactly one signer slot, fails whatever the threshold.
C2_NoDoubleCounting ==
    /\ \A p \in matched : p[2] \notin Range(signers)
    /\ (/\ VerifyDone /\ decode_result = "Ok"
        /\ \E i, j \in NonEmptyIdx :
              /\ i < j
              /\ signatures[i] = signatures[j]
              /\ Cardinality({s \in Slots : Accepts(s, signatures[i])}) = 1)
          => result = "VerificationError"

C2_Witness ==
    /\ VerifyDone /\ result = "VerificationError"
    /\ threshold = 1 /\ verified_counter = 1
    /\ signatures = << <<1>>, <<1>> >>
    /\ Cardinality({s \in Slots : Accepts(s, <<1>>)}) = 1
    /\ Len(public_keys) = 2

\* no entry of the blob is accepted by two different keys of the key list
Unambiguous ==
    \A i \in NonEmptyIdx : \A a, b \in Slots :
        (Accepts(a, signatures[i]) /\ Accepts(b, signatures[i]))
            => public_keys[a] = public_keys[b]

\* C3 as stated: with threshold = k <= n, a blob of exactly k non-empty
\* signatures, each accepted by its own one of k distinct signer slots,
\* verifies successfully.
C3_Original ==
    (/\ VerifyDone /\ decode_result = "Ok"
     /\ threshold <= Len(public_keys)
     /\ Len(signatures) = threshold
     /\ \E f \in Pairings : ValidPairing(f) /\ PairedCount(f) = Len(signatures))
        => result = "Ok"

\* C3 amended: the same, provided no signature of the blob is accepted by two
\* different keys of the list (empty entries may stand beside the k
\* signatures); and a blob with only k-1 non-empty signatures fails with
\* VerificationError.
C3_ThresholdBoundary ==
    /\ (/\ VerifyDone /\ decode_result = "Ok"
        /\ threshold <= Len(public_keys)
        /\ Cardinality(NonEmptyIdx) = threshold
        /\ \E f \in Pairings : ValidPairing(f) /\ PairedCount(f) = threshold
        /\ Unambiguous)
          => result = "Ok"
    /\ (/\ VerifyDone /\ decode_result = "Ok"
        /\ Cardinality(NonEmptyIdx) + 1 = threshold)
          => result = "VerificationError"

C3_Witness ==
    /\ VerifyDone /\ result = "Ok"
    /\ threshold = 2 /\ Len(public_keys) = 2
    /\ Cardinality(NonEmptyIdx) = 2 /\ verified_counter = 2
    /\ Unambiguous

\* the current signature is non-empty and no signer left in the pool accepts it
AtUnattributable ==
    /\ op = "verify" /\ pc = "loop" /\ sig_idx <= Len(signatures)
    /\ signatures[sig_idx] # <<>>
    /\ \A s \in Range(signers) : ~Accepts(s, signatures[sig_idx])

\* C4: a non-empty signature that no signer still in the pool accepts makes
\* verification fail at once with VerificationError, whatever the counter,
\* and no later signature is examined.
C4_Unattributable ==
    [][AtUnattributable
          => (/\ result' = "VerificationError"
              /\ pc' = "done"
              /\ sig_idx' = sig_idx
              /\ verified_counter' = verified_counter)]_vars

C4_Witness ==
    /\ VerifyDone /\ result = "VerificationError"
    /\ threshold >= 1 /\ verified_counter >= threshold
    /\ sig_idx < Len(signatures)
    /\ signatures[sig_idx] # <<>>
    /\ \A s \in Range(signers) : ~Accepts(s, signatures[sig_idx])

\* C5: a zero-length entry changes neither the verified counter nor the
\* candidate pool, calls no signer's verify_bytes and causes no error.
C5_EmptySkip ==
    [][(/\ op = "verify" /\ pc = "loop" /\ sig_idx <= Len(signatures)
        /\ signatures[sig_idx] = <<>>)
          => (/\ verified_counter' = verified_counter
              /\ signers' = signers
              /\ calls' = calls
              /\ matched' = matched
              /\ result' = "None"
              /\ pc' = "loop"
              /\ sig_idx' = sig_idx + 1)]_vars

C5_Witness ==
    /\ VerifyDone /\ result = "Ok"
    /\ threshold >= 1
    /\ signatures[1] = <<>>
    /\ Len(signatures) = 3 /\ signatures[3] = <<>>

\* C6: when threshold > len(public_keys), verify_bytes fails for every blob
\* and every behaviour of the signers' verify_bytes.
C6_OversizedThreshold ==
    (VerifyDone /\ threshold > Len(public_keys))
        => result \in {"ParsingError", "VerificationError"}

C6_Witness ==
    /\ VerifyDone /\ threshold > Len(public_keys)
    /\ Len(public_keys) = 2
    /\ Len(signatures) >= threshold
    /\ sig_idx > Len(signatures)
    /\ verified_counter = 2
    /\ result = "VerificationError"

(***************************************************************************)
(* Properties of the decoders                                              *)
(***************************************************************************)
DecodeDone == op = "decode" /\ pc = "done"

\* C7 as stated: decode_multisig_signature never returns success with an
\* empty list of signatures.
C7_Original ==
    (DecodeDone /\ decode_result = "Ok") => signatures # <<>>

\* C7 amended: for the empty blob decode_multisig_signature returns success
\* with an empty list; it is the legacy decode_multisig_signature_old that
\* never returns success with an empty list.
C7_EmptyDecode ==
    /\ (DecodeDone /\ raw_blob = <<>>)
          => (decode_result = "Ok" /\ signatures = <<>>)
    /\ (op = "old" /\ pc = "done" /\ result = "Ok") => signatures # <<>>

C7_Witness ==
    DecodeDone /\ raw_blob = <<>> /\ decode_result = "Ok" /\ signatures = <<>>

\* C8: a blob whose last record is a tag with no length byte, or declares more
\* payload bytes than remain, is rejected with ParsingError; the read offset
\* never passes the end of the buffer and an error carries no partial list.
C8_MalformedRejected ==
    /\ pos <= Len(raw_blob)
    /\ (DecodeDone /\ kind = "truncated")
          => (decode_result = "ParsingError" /\ result = "ParsingError")
    /\ (DecodeDone /\ decode_result = "ParsingError") => signatures = <<>>

C8_Witness ==
    /\ DecodeDone /\ kind = "truncated"
    /\ src_sigs # <<>> /\ ms_signatures = src_sigs
    /\ decode_result = "ParsingError"
    /\ pos < Len(raw_blob)

\* C9: decoding the concatenation of one record (tag, varint(length), payload)
\* per signature of a non-empty list returns exactly that list, in order,
\* zero-length payloads included.
C9_RoundTrip ==
    (DecodeDone /\ kind = "encoded" /\ src_sigs # <<>>)
        => (decode_result = "Ok" /\ signatures = src_sigs)

C9_Witness ==
    /\ DecodeDone /\ kind = "encoded"
    /\ Len(src_sigs) = 3
    /\ src_sigs[1] = <<>> /\ Len(src_sigs[2]) = LongSigLen /\ src_sigs[3] = <<SIGNATURE_TAG, 0>>
    /\ signatures = src_sigs

(***************************************************************************)
(* Properties of amino_bytes                                               *)
(***************************************************************************)
\* the number of base-128 digits of n
RECURSIVE Digits128(_)
Digits128(n) == IF n < 128 THEN 1 ELSE 1 + Digits128(n \div 128)

\* buf holds, from offset off to its end, one record 0x12, varint(length),
\* bytes per key of keys, in order
RECURSIVE KeysLaidOut(_, _, _)
KeysLaidOut(buf, off, keys) ==
    IF keys = <<>>
    THEN off = Len(buf)
    ELSE /\ off < Len(buf)
         /\ buf[off + 1] = 18
         /\ LET l == DecodeVarint(buf, off + 1)
                kb == KeyBytes(Head(keys))
            IN  /\ l.ok
                /\ l.value = Len(kb)
                /\ l.next - (off + 1) = Digits128(Len(kb))
                /\ l.next + l.value <= Len(buf)
                /\ SubSeq(buf, l.next + 1, l.next + l.value) = kb
                /\ KeysLaidOut(buf, l.next + l.value, Tail(keys))

\* C10: amino_bytes returns 0x22 0xc1 0xf7 0xe2, 0x08, varint(threshold), then
\* per key in list order 0x12, varint(length) and the key's bytes; a key list
\* in another order (or any other key list) gives other bytes.
C10_CanonicalEncoding ==
    (op = "amino" /\ pc = "done")
        => /\ Len(encoded) >= 6
           /\ SubSeq(encoded, 1, 4) = <<34, 193, 247, 226>>
           /\ encoded[5] = 8
           /\ LET t == DecodeVarint(encoded, 5)
              IN  /\ t.ok
                  /\ t.value = threshold
                  /\ t.next - 5 = Digits128(threshold)
                  /\ KeysLaidOut(encoded, t.next, public_keys)
           /\ \A other \in SeqsUpTo(Keys, MaxAminoKeys) :
                  other # public_keys => amino_bytes(threshold, other) # encoded

C10_Witness ==
    /\ op = "amino" /\ pc = "done"
    /\ threshold = 300
    /\ public_keys = <<2, 1, 2>>
    /\ Len(encoded) = 7 + 5 + 2 * (3 + LongKeyLen)

====
